---------------------------- MODULE Spec2Model ----------------------------
(***************************************************************************)
(* Model of the per-venue seat-booking engine of movie.cpp: class Theater  *)
(* (vShowInfo, maxSeats, mtx_), its seat-id codec, its lock-free queries   *)
(* and the lock-protected bookSeats / addShowInfo.                         *)
(*                                                                         *)
(* The specifications share the same operators:                            *)
(*   SpecSeq      one caller, every call run from entry to return; the     *)
(*                seat requests are what varies.                           *)
(*   SpecResolve  one caller, a venue of one seat; the titles, starts and  *)
(*                ordinals are what varies.                                *)
(*   SpecCodec    one caller of the seat-id codec, on every short string.  *)
(*   SpecQuery    one caller of the queries, on days around midnight.      *)
(*   SpecService  one caller of the service and its theaters.              *)
(*   Spec         NumThreads callers interleave at the granularity of the  *)
(*                source: unlocked resolution, lock acquisition,           *)
(*                validation under the lock, seat flips, the freeTickets   *)
(*                decrement.                                               *)
(*   SpecFair     those callers under a fair scheduler.                    *)
(*   SpecSnapshot those callers and a reader running the lock-free show    *)
(*                queries, one member copy at a time.                      *)
(*                                                                         *)
(* time_t is a count of seconds; local time is modelled with a fixed zone  *)
(* offset of 0, so that local midnight is the start of the 86400 s day.    *)
(* Indices (chosenIdx, seat indices) are 0-based as in the source; TLA+    *)
(* sequences are 1-based, so element i of a vector v is v[i + 1].          *)
(***************************************************************************)
EXTENDS Integers, Sequences, FiniteSets, TLC

VARIABLES
    maxSeats,    \* Theater::maxSeats
    vShowInfo,   \* Theater::vShowInfo
    mtx,         \* Theater::mtx_ : the thread holding it, or NoThread
    pc,          \* per thread: where it stands in its current call
    args,        \* per thread: the parameters of its current call
    chosenIdx,   \* per thread: bookSeats' local chosenIdx
    idxs,        \* per thread: bookSeats' local idxs
    cursor,      \* per thread: how many of idxs the flip loop has flipped
    ret,         \* per thread: the value its last bookSeats returned
    successes,   \* per show and seat: how many bookSeats calls won that seat
    last,        \* one caller: the last completed call, its show_no, what it
                 \* returned and its locals chosenIdx and idxs at the return;
                 \* in SpecSnapshot, the reader's query in progress
    vTheater     \* MovieBookingService::vTheater

vars == <<maxSeats, vShowInfo, mtx, pc, args, chosenIdx, idxs, cursor, ret,
          successes, last, vTheater>>

---------------------------------------------------------------------------
(* Bounds of the model *)

MaxShows == 2

MaxCap == 2

MaxReq == 2

NumThreads == 2

\* The longest seat identifier handed to seatIndexFromId, in characters.
MaxIdLen == 3

---------------------------------------------------------------------------
(* Time helpers *)

DaySecs == 24 * 60 * 60

\* A time_t for day d at h:m:s (local).
At(d, h, m, s) == ((d * 24 + h) * 60 + m) * 60 + s

toLocalMidnight(t) == t - (t % DaySecs)

hour_min_local(t) ==
    [h |-> (t % DaySecs) \div (60 * 60), m |-> (t % (60 * 60)) \div 60]

SameHM(a, b) ==
    hour_min_local(a).h = hour_min_local(b).h /\ hour_min_local(a).m = hour_min_local(b).m

---------------------------------------------------------------------------
(* Seat-id codec.  A std::string is a sequence of one-character strings.   *)

Digits == <<"0", "1", "2", "3", "4", "5", "6", "7", "8", "9">>

IsDigit(c) == \E d \in 1..10 : Digits[d] = c

DigitVal(c) == (CHOOSE d \in 1..10 : Digits[d] = c) - 1

IsSpace(c) == c = " "

\* std::to_string of a non-negative int.
RECURSIVE to_string(_)
to_string(n) ==
    IF n < 10 THEN <<Digits[n + 1]>>
    ELSE to_string(n \div 10) \o <<Digits[(n % 10) + 1]>>

\* makeSeatId as it would be if it numbered the seats from 0.
makeSeatId_FromZero(idx) == <<"A">> \o to_string(idx)

makeSeatId(idx) == <<"A">> \o to_string(idx + 1)

\* The value of the longest prefix of digits of s, and what follows it.
RECURSIVE ParseDigits(_, _)
ParseDigits(s, acc) ==
    IF s # <<>> /\ IsDigit(Head(s))
    THEN ParseDigits(Tail(s), acc * 10 + DigitVal(Head(s)))
    ELSE [n |-> acc, rest |-> s]

RECURSIVE SkipSpace(_)
SkipSpace(s) == IF s # <<>> /\ IsSpace(Head(s)) THEN SkipSpace(Tail(s)) ELSE s

\* std::strtol(s, &endp, 10): leading white space, an optional sign, digits.
\* With no digit at all nothing is converted: n = 0 and endp = s.
strtol(s) ==
    LET t    == SkipSpace(s)
        neg  == t # <<>> /\ Head(t) = "-"
        sgn  == t # <<>> /\ Head(t) \in {"+", "-"}
        body == IF sgn THEN Tail(t) ELSE t
        p    == ParseDigits(body, 0)
    IN  IF body = <<>> \/ ~IsDigit(Head(body))
        THEN [n |-> 0, endp |-> s]
        ELSE [n |-> IF neg THEN 0 - p.n ELSE p.n, endp |-> p.rest]

seatIndexFromId(id, cap) ==
    IF Len(id) < 2 \/ (id[1] # "A" /\ id[1] # "a") THEN 0 - 1
    ELSE LET r == strtol(Tail(id))
         IN  IF r.endp # <<>> \/ r.n <= 0 \/ r.n > cap THEN 0 - 1
             ELSE r.n - 1

---------------------------------------------------------------------------
(* ShowInfo and the vector of shows *)

\* ShowInfo(name, stime, price, seats): taken is default-constructed (empty).
ShowInfo(name, stime, price, seats) ==
    [movieName |-> name, start |-> stime, price |-> price,
     freeTickets |-> seats, taken |-> <<>>]

\* vShowInfo.emplace_back(name, start_t, price, maxSeats)
Emplace(shows, name, start_t, price, cap) ==
    Append(shows, ShowInfo(name, start_t, price, cap))

\* AssignTaken as it would be if it reset the seat map of every show.
AssignTaken_Every(shows, cap) ==
    [i \in 1..Len(shows) |-> [shows[i] EXCEPT !.taken = [k \in 1..cap |-> FALSE]]]

\* AssignTaken as it would be if the seat map were one seat short.
AssignTaken_OneShort(shows, cap) ==
    [shows EXCEPT ![Len(shows)].taken = [i \in 1..(cap - 1) |-> FALSE]]

\* vShowInfo.back().taken.assign(maxSeats, false)
AssignTaken(shows, cap) ==
    [shows EXCEPT ![Len(shows)].taken = [i \in 1..cap |-> FALSE]]

\* SetFree as it would be if it counted one seat more than the venue has.
SetFree_OneMore(shows, cap) ==
    [shows EXCEPT ![Len(shows)].freeTickets = cap + 1]

\* vShowInfo.back().freeTickets = maxSeats
SetFree(shows, cap) ==
    [shows EXCEPT ![Len(shows)].freeTickets = cap]

\* The whole of Theater::addShowInfo(name, start_t, price).
addShowInfo(shows, name, start_t, price, cap) ==
    SetFree(AssignTaken(Emplace(shows, name, start_t, price, cap), cap), cap)

\* Number of false entries of a seat map.
CountFree(taken) == Cardinality({i \in 1..Len(taken) : ~taken[i]})

---------------------------------------------------------------------------
(* Queries *)

\* hasShowOnDay as it would be if the start were compared with the instant
\* of the query, not with its day.
hasShowOnDay_SameInstant(shows, movieName, day) ==
    \E i \in 1..Len(shows) :
        /\ shows[i].movieName = movieName
        /\ shows[i].start = day

hasShowOnDay(shows, movieName, day) ==
    \E i \in 1..Len(shows) :
        /\ shows[i].movieName = movieName
        /\ toLocalMidnight(shows[i].start) = toLocalMidnight(day)

\* The free seat ids of show s, in ascending index order.
RECURSIVE FreeIdsFrom(_, _, _)
FreeIdsFrom(s, i, cap) ==
    IF i >= cap THEN <<>>
    ELSE (IF i < Len(s.taken) /\ ~s.taken[i + 1] THEN <<makeSeatId(i)>> ELSE <<>>)
         \o FreeIdsFrom(s, i + 1, cap)

\* availableSeatIds as it would be if the last-inserted match were read.
availableSeatIds_LastMatch(shows, moviename, start, cap) ==
    LET M == {i \in 1..Len(shows) :
                 shows[i].movieName = moviename /\ shows[i].start = start}
    IN  IF M = {} THEN <<>>
        ELSE FreeIdsFrom(shows[CHOOSE i \in M : \A j \in M : j <= i], 0, cap)

availableSeatIds(shows, moviename, start, cap) ==
    LET M == {i \in 1..Len(shows) :
                 shows[i].movieName = moviename /\ shows[i].start = start}
    IN  IF M = {} THEN <<>>
        ELSE FreeIdsFrom(shows[CHOOSE i \in M : \A j \in M : i <= j], 0, cap)

\* std::string's operator< on the titles of the model.
TitleRank(name) == CASE name = "X" -> 1 [] name = "Y" -> 2

TitleLess(a, b) == TitleRank(a) < TitleRank(b)

\* names with x put before the first element that is not less than x.
RECURSIVE InsertSorted(_, _)
InsertSorted(names, x) ==
    IF names = <<>> THEN <<x>>
    ELSE IF TitleLess(Head(names), x) THEN <<Head(names)>> \o InsertSorted(Tail(names), x)
    ELSE <<x>> \o names

\* std::sort(names.begin(), names.end()): equal titles are the same string,
\* so the result is one sequence whatever the algorithm.
RECURSIVE SortNames(_)
SortNames(names) ==
    IF names = <<>> THEN <<>> ELSE InsertSorted(SortNames(Tail(names)), Head(names))

\* Unique as it would be if nothing were erased.
Unique_KeepAll(names) == names

\* names.erase(std::unique(...), names.end()): of every run of equal
\* consecutive elements the first is kept.
RECURSIVE Unique(_)
Unique(names) ==
    IF Len(names) < 2 THEN names
    ELSE IF names[1] = names[2] THEN Unique(<<names[1]>> \o Tail(Tail(names)))
    ELSE <<Head(names)>> \o Unique(Tail(names))

getMovieListOn(shows, day) ==
    LET OnDay0(s) == toLocalMidnight(s.start) = toLocalMidnight(day)
        on        == SelectSeq(shows, OnDay0)
        names     == [k \in 1..Len(on) |-> on[k].movieName]
    IN  Unique(SortNames(names))

getListofMovieShowsOn(shows, moviename, day) ==
    LET Match(s) == s.movieName = moviename
                    /\ toLocalMidnight(s.start) = toLocalMidnight(day)
    IN  SelectSeq(shows, Match)

\* The name of the one theater of the service.
TheaterName == "Apsara"

\* MovieBookingService::seatsAvailable for a service whose only theater
\* holds shows: the vectors it may return (std::sort may leave entries
\* with equal starts in either order).
seatsAvailable(shows, cap, theater, movie, day) ==
    IF theater # TheaterName THEN {<<>>}
    ELSE LET on      == getListofMovieShowsOn(shows, movie, day)
             tickets == [k \in 1..Len(on) |->
                            [start |-> on[k].start, price |-> on[k].price,
                             seats |-> availableSeatIds(shows, movie, on[k].start, cap)]]
         IN  {[k \in 1..Len(tickets) |-> tickets[f[k]]] :
                 f \in {g \in Permutations(1..Len(tickets)) :
                           \A a, b \in 1..Len(tickets) :
                               a < b => ~(tickets[g[b]].start < tickets[g[a]].start)}}

---------------------------------------------------------------------------
(* bookSeats: resolution of the show (before the lock is taken) *)

\* size_t(-1), the "nothing chosen" value of chosenIdx.
NoIdx == 0 - 1

\* The indices i, ascending, of the shows with the title on the target day.
RECURSIVE CandidatesFrom(_, _, _, _)
CandidatesFrom(shows, i, moviename, targetDate) ==
    IF i >= Len(shows) THEN <<>>
    ELSE (IF shows[i + 1].movieName = moviename
             /\ toLocalMidnight(shows[i + 1].start) = targetDate
          THEN <<i>> ELSE <<>>)
         \o CandidatesFrom(shows, i + 1, moviename, targetDate)

Candidates(shows, moviename, dt) ==
    CandidatesFrom(shows, 0, moviename, toLocalMidnight(dt))

\* TimeMatch as it would be if it compared the whole start with dt.
RECURSIVE TimeMatch_ExactStart(_, _, _)
TimeMatch_ExactStart(shows, cands, dt) ==
    IF cands = <<>> THEN NoIdx
    ELSE IF shows[Head(cands) + 1].start = dt THEN Head(cands)
    ELSE TimeMatch_ExactStart(shows, Tail(cands), dt)

\* Time-match mode: the first candidate with dt's hour and minute, or NoIdx.
RECURSIVE TimeMatch(_, _, _)
TimeMatch(shows, cands, dt) ==
    IF cands = <<>> THEN NoIdx
    ELSE IF SameHM(shows[Head(cands) + 1].start, dt) THEN Head(cands)
    ELSE TimeMatch(shows, Tail(cands), dt)

\* SortedByStart as it would be without the sort: insertion order.
SortedByStart_Unsorted(shows, cands) == {cands}

\* std::sort(candidates, by start): every arrangement of the candidates that
\* is ascending by start.  std::sort is not stable, so candidates with equal
\* starts may come out in either order.
SortedByStart(shows, cands) ==
    {p \in [1..Len(cands) -> {cands[k] : k \in 1..Len(cands)}] :
        /\ \A a, b \in 1..Len(cands) : a # b => p[a] # p[b]
        /\ \A a, b \in 1..Len(cands) :
               a < b => ~(shows[p[b] + 1].start < shows[p[a] + 1].start)}

\* Resolve as it would be without the test of line 364.
Resolve_EmptyAllowed(shows, moviename, dt, seatIds, show_no) ==
    LET cands == Candidates(shows, moviename, dt)
    IN  IF cands = <<>> THEN {NoIdx}
        ELSE IF show_no = 0 THEN {TimeMatch(shows, cands, dt)}
        ELSE IF show_no <= 0 THEN {NoIdx}
        ELSE IF show_no > Len(cands) THEN {NoIdx}
        ELSE {p[show_no] : p \in SortedByStart(shows, cands)}

\* Resolve as it would be if an ordinal outside 1 .. candidates.size() were
\* brought back into that range.
Resolve_ClampedOrdinal(shows, moviename, dt, seatIds, show_no) ==
    LET cands == Candidates(shows, moviename, dt)
        n     == IF show_no < 1 THEN 1
                 ELSE IF show_no > Len(cands) THEN Len(cands) ELSE show_no
    IN  IF seatIds = <<>> THEN {NoIdx}
        ELSE IF cands = <<>> THEN {NoIdx}
        ELSE IF show_no = 0 THEN {TimeMatch(shows, cands, dt)}
        ELSE {p[n] : p \in SortedByStart(shows, cands)}

\* Lines 364-390: the values chosenIdx may have when the lock is requested;
\* NoIdx stands for an early "return false".
Resolve(shows, moviename, dt, seatIds, show_no) ==
    LET cands == Candidates(shows, moviename, dt)
    IN  IF seatIds = <<>> THEN {NoIdx}
        ELSE IF cands = <<>> THEN {NoIdx}
        ELSE IF show_no = 0 THEN {TimeMatch(shows, cands, dt)}
        ELSE IF show_no <= 0 THEN {NoIdx}
        ELSE IF show_no > Len(cands) THEN {NoIdx}
        ELSE {p[show_no] : p \in SortedByStart(shows, cands)}

---------------------------------------------------------------------------
(* bookSeats: the critical section *)

\* Lines 393-402: the re-validation of the chosen show under the lock.
Revalidate(shows, c, moviename, dt, show_no) ==
    /\ c < Len(shows)
    /\ shows[c + 1].movieName = moviename
    /\ toLocalMidnight(shows[c + 1].start) = toLocalMidnight(dt)
    /\ (show_no = 0 => SameHM(shows[c + 1].start, dt))

\* ValidateSeats as it would be without the "already booked" test.
RECURSIVE ValidateSeats_NoTakenTest(_, _, _, _)
ValidateSeats_NoTakenTest(show, seatIds, cap, acc) ==
    IF seatIds = <<>> THEN [ok |-> TRUE, idxs |-> acc]
    ELSE LET idx == seatIndexFromId(Head(seatIds), cap)
         IN  IF idx < 0 \/ idx >= cap THEN [ok |-> FALSE, idxs |-> acc]
             ELSE IF idx >= Len(show.taken) THEN [ok |-> FALSE, idxs |-> acc]
             ELSE ValidateSeats_NoTakenTest(show, Tail(seatIds), cap, Append(acc, idx))

\* Lines 404-412: the validation loop; ok is false at the first identifier
\* that is malformed, out of range or taken, and acc holds the indices that
\* had been pushed to idxs by then.
RECURSIVE ValidateSeats(_, _, _, _)
ValidateSeats(show, seatIds, cap, acc) ==
    IF seatIds = <<>> THEN [ok |-> TRUE, idxs |-> acc]
    ELSE LET idx == seatIndexFromId(Head(seatIds), cap)
         IN  IF idx < 0 \/ idx >= cap THEN [ok |-> FALSE, idxs |-> acc]
             ELSE IF idx >= Len(show.taken) THEN [ok |-> FALSE, idxs |-> acc]
             ELSE IF show.taken[idx + 1] THEN [ok |-> FALSE, idxs |-> acc]
             ELSE ValidateSeats(show, Tail(seatIds), cap, Append(acc, idx))

\* FlipSeat as it would be if the seat were marked in every show.
FlipSeat_EveryShow(shows, c, idx) ==
    [i \in 1..Len(shows) |-> [shows[i] EXCEPT !.taken[idx + 1] = TRUE]]

\* show.taken[idx] = true
FlipSeat(shows, c, idx) == [shows EXCEPT ![c + 1].taken[idx + 1] = TRUE]

\* Line 414: for (int idx : idxs) show.taken[idx] = true
RECURSIVE FlipAll(_, _, _)
FlipAll(shows, c, ix) ==
    IF ix = <<>> THEN shows ELSE FlipAll(FlipSeat(shows, c, Head(ix)), c, Tail(ix))

\* Decrement as it would be if every booking took one ticket.
Decrement_ByOne(shows, c, k) ==
    [shows EXCEPT ![c + 1].freeTickets = shows[c + 1].freeTickets - 1]

\* Line 415: show.freeTickets -= idxs.size()
Decrement(shows, c, k) ==
    [shows EXCEPT ![c + 1].freeTickets = shows[c + 1].freeTickets - k]

\* Critical as it would be if each seat were flipped as soon as it had been
\* validated, inside the validation loop.
Critical_FlipInLoop(shows, cap, c, moviename, dt, seatIds, show_no) ==
    IF c = NoIdx \/ ~Revalidate(shows, c, moviename, dt, show_no)
    THEN [ret |-> FALSE, shows |-> shows, chosenIdx |-> c, idxs |-> <<>>]
    ELSE LET v == ValidateSeats(shows[c + 1], seatIds, cap, <<>>)
         IN  IF ~v.ok
             THEN [ret |-> FALSE, shows |-> FlipAll(shows, c, v.idxs),
                   chosenIdx |-> c, idxs |-> v.idxs]
             ELSE [ret |-> TRUE,
                   shows |-> Decrement(FlipAll(shows, c, v.idxs), c, Len(v.idxs)),
                   chosenIdx |-> c, idxs |-> v.idxs]

\* Lines 392-416 for one value c of chosenIdx: what is returned, the vector
\* afterwards, and the locals at the return.
Critical(shows, cap, c, moviename, dt, seatIds, show_no) ==
    IF c = NoIdx \/ ~Revalidate(shows, c, moviename, dt, show_no)
    THEN [ret |-> FALSE, shows |-> shows, chosenIdx |-> c, idxs |-> <<>>]
    ELSE LET v == ValidateSeats(shows[c + 1], seatIds, cap, <<>>)
         IN  IF ~v.ok
             THEN [ret |-> FALSE, shows |-> shows, chosenIdx |-> c, idxs |-> v.idxs]
             ELSE [ret |-> TRUE,
                   shows |-> Decrement(FlipAll(shows, c, v.idxs), c, Len(v.idxs)),
                   chosenIdx |-> c, idxs |-> v.idxs]

\* The whole of Theater::bookSeats run without interruption: its possible
\* outcomes (more than one only when std::sort may order equal starts
\* either way).
bookSeats(shows, cap, moviename, dt, seatIds, show_no) ==
    {Critical(shows, cap, c, moviename, dt, seatIds, show_no) :
        c \in Resolve(shows, moviename, dt, seatIds, show_no)}

---------------------------------------------------------------------------
(* MovieBookingService: the vector of theaters *)

defaultTheaterCapacity == 20

\* Theater(name, seats): no show.
Theater(name, seats) == [theaterName |-> name, maxSeats |-> seats, vShowInfo |-> <<>>]

\* std::find_if over vTheater by getTheaterName(): the position of the
\* first theater of that name, or 0 for vTheater.end().
FindTheater(theaters, theater) ==
    LET M == {i \in 1..Len(theaters) : theaters[i].theaterName = theater}
    IN  IF M = {} THEN 0 ELSE CHOOSE i \in M : \A j \in M : i <= j

\* addTheater as it would be if it put a new theater in the place of the
\* one that has the name.
addTheater_Replace(theaters, theater, capacity) ==
    IF FindTheater(theaters, theater) = 0
    THEN Append(theaters, Theater(theater, capacity))
    ELSE [theaters EXCEPT ![FindTheater(theaters, theater)] = Theater(theater, capacity)]

\* MovieBookingService::addTheater(theater, capacity)
addTheater(theaters, theater, capacity) ==
    IF FindTheater(theaters, theater) = 0
    THEN Append(theaters, Theater(theater, capacity))
    ELSE theaters

\* MovieBookingService::addShowInfo(theater, movie, start_t, price): a
\* theater that is not found is created with the default capacity.
serviceAddShowInfo(theaters, theater, movie, start_t, price) ==
    LET ths == IF FindTheater(theaters, theater) = 0
               THEN Append(theaters, Theater(theater, defaultTheaterCapacity))
               ELSE theaters
        it  == FindTheater(ths, theater)
    IN  [ths EXCEPT ![it].vShowInfo =
            addShowInfo(ths[it].vShowInfo, movie, start_t, price, ths[it].maxSeats)]

\* MovieBookingService::bookSeats(theater, moviename, dt, seatIds, show_no):
\* what it may return, with the theaters afterwards.
serviceBookSeats(theaters, theater, moviename, dt, seatIds, show_no) ==
    LET it == FindTheater(theaters, theater)
    IN  IF it = 0 THEN {[ret |-> FALSE, theaters |-> theaters]}
        ELSE {[ret |-> o.ret, theaters |-> [theaters EXCEPT ![it].vShowInfo = o.shows]] :
                 o \in bookSeats(theaters[it].vShowInfo, theaters[it].maxSeats,
                                 moviename, dt, seatIds, show_no)}

---------------------------------------------------------------------------
(* Inputs *)

Titles == {"X", "Y"}

\* Day 0 at 10:00:00, 10:00:30 and 14:00:00, and day 1 at 10:00:00.
Starts == {At(0, 10, 0, 0), At(0, 10, 0, 30), At(0, 14, 0, 0), At(1, 10, 0, 0)}

\* The two starts of the seat-level specification: day 0 at 10:00 and 14:00.
SeatStarts == {At(0, 10, 0, 0), At(0, 14, 0, 0)}

Prices == {15}

\* "A1", "A2", "a1" and "B1".
SeatIds == {<<"A", "1">>, <<"A", "2">>, <<"a", "1">>, <<"B", "1">>}

\* The seatIds vectors of at most MaxReq identifiers.
Requests == UNION {[1..n -> SeatIds] : n \in 0..MaxReq}

\* Time-match mode and every ordinal a venue of MaxShows shows can resolve.
ShowNos == 0..MaxShows

\* The title the seat-level specification books; shows of the other title
\* stand by.
BookTitles == {"X"}

Capacities == 1..MaxCap

Threads == 1..NumThreads

NoThread == 0

NoArgs == [op |-> "none"]

---------------------------------------------------------------------------
(* State after construction: Theater(name, seats) with no show. *)

Init ==
    /\ maxSeats \in Capacities
    /\ vShowInfo = <<>>
    /\ mtx = NoThread
    /\ pc = [t \in Threads |-> "idle"]
    /\ args = [t \in Threads |-> NoArgs]
    /\ chosenIdx = [t \in Threads |-> NoIdx]
    /\ idxs = [t \in Threads |-> <<>>]
    /\ cursor = [t \in Threads |-> 0]
    /\ ret = [t \in Threads |-> FALSE]
    /\ successes = <<>>
    /\ last = [op |-> "none", show_no |-> 0, ret |-> FALSE, chosenIdx |-> NoIdx,
               idxs |-> <<>>]
    /\ vTheater = <<>>

thread_vars == <<pc, args, chosenIdx, idxs, cursor, ret, successes>>

---------------------------------------------------------------------------
(* SpecSeq: one caller, each call run from entry to return. *)

\* th.addShowInfo(name, start_t, price)
SeqAddShowInfo(name, start_t, price) ==
    /\ Len(vShowInfo) < MaxShows
    /\ mtx = NoThread
    /\ vShowInfo' = addShowInfo(vShowInfo, name, start_t, price, maxSeats)
    /\ last' = [op |-> "addShowInfo", show_no |-> 0, ret |-> FALSE,
                chosenIdx |-> NoIdx, idxs |-> <<>>]
    /\ UNCHANGED <<maxSeats, mtx, thread_vars, vTheater>>

\* th.bookSeats(moviename, dt, seatIds, show_no)
SeqBookSeats(moviename, dt, seatIds, show_no) ==
    /\ mtx = NoThread
    /\ \E o \in bookSeats(vShowInfo, maxSeats, moviename, dt, seatIds, show_no) :
           /\ vShowInfo' = o.shows
           /\ last' = [op |-> "bookSeats", show_no |-> show_no, ret |-> o.ret,
                       chosenIdx |-> o.chosenIdx, idxs |-> o.idxs]
    /\ UNCHANGED <<maxSeats, mtx, thread_vars, vTheater>>

NextSeq ==
    \/ \E name \in Titles, start_t \in SeatStarts, price \in Prices :
           SeqAddShowInfo(name, start_t, price)
    \/ \E moviename \in BookTitles, dt \in SeatStarts, seatIds \in Requests,
          show_no \in ShowNos :
           SeqBookSeats(moviename, dt, seatIds, show_no)

SpecSeq == Init /\ [][NextSeq]_vars

---------------------------------------------------------------------------
(* SpecResolve: one caller, a venue of one seat, every start and title:    *)
(* the resolution of the show is what varies.                              *)

InitResolve == Init /\ maxSeats = 1

\* The empty request and the request of seat "A1".
ResolveRequests == {<<>>, <<(<<"A", "1">>)>>}

NextResolve ==
    \/ \E name \in Titles, start_t \in Starts, price \in Prices :
           SeqAddShowInfo(name, start_t, price)
    \/ \E moviename \in Titles, dt \in Starts, seatIds \in ResolveRequests,
          show_no \in (0 - 1)..(MaxShows + 1) :
           SeqBookSeats(moviename, dt, seatIds, show_no)

SpecResolve == InitResolve /\ [][NextResolve]_vars

---------------------------------------------------------------------------
(* Spec: NumThreads callers of one Theater.  A thread is "idle" before its *)
(* first call and "done" after a return; the steps in between are those    *)
(* of the source.                                                          *)

ConcTitles == {"X"}

\* The reference instant of the concurrent bookings: day 0 at 10:00.
ConcInstants == {At(0, 10, 0, 0)}

\* No seat, "A1", "A2", and "A1" with "A2".
ConcRequests ==
    {<<>>, <<(<<"A", "1">>)>>, <<(<<"A", "2">>)>>, <<(<<"A", "1">>), (<<"A", "2">>)>>}

\* Time-match mode and the first show in start order.
ConcShowNos == {0, 1}

Free(t) == pc[t] \in {"idle", "done"}

\* How many bookSeats calls have returned true after flipping seat idx of
\* show c.
WinCount(c, idx) ==
    IF <<c, idx>> \in DOMAIN successes THEN successes[<<c, idx>>] ELSE 0

\* if (th.bookSeats(...)) ++successes, kept per seat won.
CountWins(c, ix) ==
    LET won == {<<c, ix[k]>> : k \in 1..Len(ix)}
    IN  [w \in (DOMAIN successes) \cup won |->
            IF w \in won THEN WinCount(w[1], w[2]) + 1 ELSE successes[w]]

\* AddLock as it would be if addShowInfo inserted without the lock.
AddLock_NoWait(t, name, start_t, price) ==
    /\ Free(t)
    /\ Len(vShowInfo) < MaxShows
    /\ \A u \in Threads : pc[u] \notin {"emplace", "assign", "setfree"}
    /\ mtx' = mtx
    /\ pc' = [pc EXCEPT ![t] = "emplace"]
    /\ args' = [args EXCEPT ![t] =
                   [op |-> "addShowInfo", name |-> name, start_t |-> start_t,
                    price |-> price]]
    /\ chosenIdx' = [chosenIdx EXCEPT ![t] = NoIdx]
    /\ idxs' = [idxs EXCEPT ![t] = <<>>]
    /\ cursor' = [cursor EXCEPT ![t] = 0]
    /\ ret' = [ret EXCEPT ![t] = FALSE]
    /\ UNCHANGED <<maxSeats, vShowInfo, successes, last, vTheater>>

\* addShowInfo, line 243: the call is entered and the lock taken.
AddLock(t, name, start_t, price) ==
    /\ Free(t)
    /\ Len(vShowInfo) < MaxShows
    /\ mtx = NoThread
    /\ mtx' = t
    /\ pc' = [pc EXCEPT ![t] = "emplace"]
    /\ args' = [args EXCEPT ![t] =
                   [op |-> "addShowInfo", name |-> name, start_t |-> start_t,
                    price |-> price]]
    /\ chosenIdx' = [chosenIdx EXCEPT ![t] = NoIdx]
    /\ idxs' = [idxs EXCEPT ![t] = <<>>]
    /\ cursor' = [cursor EXCEPT ![t] = 0]
    /\ ret' = [ret EXCEPT ![t] = FALSE]
    /\ UNCHANGED <<maxSeats, vShowInfo, successes, last, vTheater>>

\* addShowInfo, line 244
AddEmplace(t) ==
    /\ pc[t] = "emplace"
    /\ vShowInfo' = Emplace(vShowInfo, args[t].name, args[t].start_t,
                            args[t].price, maxSeats)
    /\ pc' = [pc EXCEPT ![t] = "assign"]
    /\ UNCHANGED <<maxSeats, mtx, args, chosenIdx, idxs, cursor, ret, successes, last, vTheater>>

\* addShowInfo, line 245
AddAssign(t) ==
    /\ pc[t] = "assign"
    /\ vShowInfo' = AssignTaken(vShowInfo, maxSeats)
    /\ pc' = [pc EXCEPT ![t] = "setfree"]
    /\ UNCHANGED <<maxSeats, mtx, args, chosenIdx, idxs, cursor, ret, successes, last, vTheater>>

\* addShowInfo, lines 246-247: the last assignment, and the lock_guard's
\* release at the return.
AddSetFree(t) ==
    /\ pc[t] = "setfree"
    /\ vShowInfo' = SetFree(vShowInfo, maxSeats)
    /\ mtx' = NoThread
    /\ pc' = [pc EXCEPT ![t] = "done"]
    /\ UNCHANGED <<maxSeats, args, chosenIdx, idxs, cursor, ret, successes, last, vTheater>>

\* bookSeats, lines 364-390: the call is entered and the show resolved,
\* reading vShowInfo without the lock.
BookResolve(t, moviename, dt, seatIds, show_no) ==
    /\ Free(t)
    /\ \E c \in Resolve(vShowInfo, moviename, dt, seatIds, show_no) :
           /\ chosenIdx' = [chosenIdx EXCEPT ![t] = c]
           /\ pc' = [pc EXCEPT ![t] = IF c = NoIdx THEN "done" ELSE "lock"]
    /\ args' = [args EXCEPT ![t] =
                   [op |-> "bookSeats", moviename |-> moviename, dt |-> dt,
                    seatIds |-> seatIds, show_no |-> show_no]]
    /\ idxs' = [idxs EXCEPT ![t] = <<>>]
    /\ cursor' = [cursor EXCEPT ![t] = 0]
    /\ ret' = [ret EXCEPT ![t] = FALSE]
    /\ UNCHANGED <<maxSeats, vShowInfo, mtx, successes, last, vTheater>>

\* BookLock as it would be if the lock were taken without waiting for it.
BookLock_NoWait(t) ==
    /\ pc[t] = "lock"
    /\ mtx' = t
    /\ pc' = [pc EXCEPT ![t] = "critical"]
    /\ UNCHANGED <<maxSeats, vShowInfo, args, chosenIdx, idxs, cursor, ret, successes, last, vTheater>>

\* bookSeats, line 392: std::lock_guard lk(mtx_)
BookLock(t) ==
    /\ pc[t] = "lock"
    /\ mtx = NoThread
    /\ mtx' = t
    /\ pc' = [pc EXCEPT ![t] = "critical"]
    /\ UNCHANGED <<maxSeats, vShowInfo, args, chosenIdx, idxs, cursor, ret, successes, last, vTheater>>

\* BookValidate as it would be if a failure returned with the lock held.
BookValidate_KeepsLock(t) ==
    /\ pc[t] = "critical"
    /\ LET a  == args[t]
           c  == chosenIdx[t]
           ok == Revalidate(vShowInfo, c, a.moviename, a.dt, a.show_no)
           v  == IF ok THEN ValidateSeats(vShowInfo[c + 1], a.seatIds, maxSeats, <<>>)
                 ELSE [ok |-> FALSE, idxs |-> <<>>]
       IN  /\ idxs' = [idxs EXCEPT ![t] = v.idxs]
           /\ pc' = [pc EXCEPT ![t] = IF v.ok THEN "flip" ELSE "done"]
           /\ mtx' = mtx
    /\ UNCHANGED <<maxSeats, vShowInfo, args, chosenIdx, cursor, ret, successes, last, vTheater>>

\* bookSeats, lines 393-412: the re-validation and the validation loop; a
\* failure returns false, which releases the lock.
BookValidate(t) ==
    /\ pc[t] = "critical"
    /\ LET a  == args[t]
           c  == chosenIdx[t]
           ok == Revalidate(vShowInfo, c, a.moviename, a.dt, a.show_no)
           v  == IF ok THEN ValidateSeats(vShowInfo[c + 1], a.seatIds, maxSeats, <<>>)
                 ELSE [ok |-> FALSE, idxs |-> <<>>]
       IN  /\ idxs' = [idxs EXCEPT ![t] = v.idxs]
           /\ pc' = [pc EXCEPT ![t] = IF v.ok THEN "flip" ELSE "done"]
           /\ mtx' = IF v.ok THEN mtx ELSE NoThread
    /\ UNCHANGED <<maxSeats, vShowInfo, args, chosenIdx, cursor, ret, successes, last, vTheater>>

\* bookSeats, line 414: one iteration of the flip loop.
BookFlip(t) ==
    /\ pc[t] = "flip"
    /\ cursor[t] < Len(idxs[t])
    /\ vShowInfo' = FlipSeat(vShowInfo, chosenIdx[t], idxs[t][cursor[t] + 1])
    /\ cursor' = [cursor EXCEPT ![t] = cursor[t] + 1]
    /\ UNCHANGED <<maxSeats, mtx, pc, args, chosenIdx, idxs, ret, successes, last, vTheater>>

\* bookSeats, lines 415-416: the decrement, return true, and the
\* lock_guard's release.
BookDecrement(t) ==
    /\ pc[t] = "flip"
    /\ cursor[t] = Len(idxs[t])
    /\ vShowInfo' = Decrement(vShowInfo, chosenIdx[t], Len(idxs[t]))
    /\ mtx' = NoThread
    /\ ret' = [ret EXCEPT ![t] = TRUE]
    /\ pc' = [pc EXCEPT ![t] = "done"]
    /\ successes' = CountWins(chosenIdx[t], idxs[t])
    /\ UNCHANGED <<maxSeats, args, chosenIdx, idxs, cursor, last, vTheater>>

Next ==
    \/ \E t \in Threads, name \in ConcTitles, start_t \in SeatStarts, price \in Prices :
           AddLock(t, name, start_t, price)
    \/ \E t \in Threads : AddEmplace(t)
    \/ \E t \in Threads : AddAssign(t)
    \/ \E t \in Threads : AddSetFree(t)
    \/ \E t \in Threads, moviename \in ConcTitles, dt \in ConcInstants,
          seatIds \in ConcRequests, show_no \in ConcShowNos :
           BookResolve(t, moviename, dt, seatIds, show_no)
    \/ \E t \in Threads : BookLock(t)
    \/ \E t \in Threads : BookValidate(t)
    \/ \E t \in Threads : BookFlip(t)
    \/ \E t \in Threads : BookDecrement(t)

Spec == Init /\ [][Next]_vars

---------------------------------------------------------------------------
(* SpecCodec: one caller of the seat-id codec.  seatIndexFromId is private  *)
(* and reached through bookSeats; here it is also applied on its own.  The  *)
(* identifier under study is drawn at the start among the strings of at     *)
(* most MaxIdLen characters and kept in args; makeSeatId is applied to      *)
(* every index of the venue.                                                *)

\* The characters of the identifiers: the two accepted letters, another
\* letter, three digits, the two signs and the blank.
CodecAlphabet == {"A", "a", "B", "0", "1", "2", "+", "-", " "}

CodecIds == UNION {[1..n -> CodecAlphabet] : n \in 0..MaxIdLen}

\* The identifier under study.
TheId == args[1].id

\* What a request holds before the identifier under study: nothing, or "A1".
CodecPrefixes == {<<>>, <<(<<"A", "1">>)>>}

InitCodec ==
    /\ maxSeats \in Capacities
    /\ vShowInfo = <<>>
    /\ mtx = NoThread
    /\ pc = [t \in Threads |-> "idle"]
    /\ \E id \in CodecIds : args = [t \in Threads |-> [op |-> "none", id |-> id]]
    /\ chosenIdx = [t \in Threads |-> NoIdx]
    /\ idxs = [t \in Threads |-> <<>>]
    /\ cursor = [t \in Threads |-> 0]
    /\ ret = [t \in Threads |-> FALSE]
    /\ successes = <<>>
    /\ last = [op |-> "none", show_no |-> 0, ret |-> FALSE, chosenIdx |-> NoIdx,
               idxs |-> <<>>]
    /\ vTheater = <<>>

\* seatIndexFromId(id)
CodecDecode ==
    /\ last' = [op |-> "seatIndexFromId", id |-> TheId,
                idx |-> seatIndexFromId(TheId, maxSeats)]
    /\ UNCHANGED <<maxSeats, vShowInfo, mtx, thread_vars, vTheater>>

\* makeSeatId(idx)
CodecEncode(idx) ==
    /\ last' = [op |-> "makeSeatId", idx |-> idx, id |-> makeSeatId(idx)]
    /\ UNCHANGED <<maxSeats, vShowInfo, mtx, thread_vars, vTheater>>

\* th.bookSeats(moviename, dt, seatIds, 0), the request kept with the result.
CodecBookSeats(moviename, dt, seatIds) ==
    /\ mtx = NoThread
    /\ \E o \in bookSeats(vShowInfo, maxSeats, moviename, dt, seatIds, 0) :
           /\ vShowInfo' = o.shows
           /\ last' = [op |-> "bookSeats", show_no |-> 0, ret |-> o.ret,
                       chosenIdx |-> o.chosenIdx, idxs |-> o.idxs,
                       seatIds |-> seatIds]
    /\ UNCHANGED <<maxSeats, mtx, thread_vars, vTheater>>

NextCodec ==
    \/ \E name \in BookTitles, start_t \in ConcInstants, price \in Prices :
           SeqAddShowInfo(name, start_t, price)
    \/ CodecDecode
    \/ \E idx \in 0..(maxSeats - 1) : CodecEncode(idx)
    \/ \E moviename \in BookTitles, dt \in ConcInstants, pre \in CodecPrefixes :
           CodecBookSeats(moviename, dt, pre \o <<TheId>>)

SpecCodec == InitCodec /\ [][NextCodec]_vars

---------------------------------------------------------------------------
(* SpecQuery: one caller who adds shows, books seats and asks the queries  *)
(* of the venue and of the service; last keeps each query with its answer. *)

\* Day 0 at 00:01:00, 23:59:00 and 23:59:30, and day 1 at 00:30:00.
QueryStarts == {At(0, 0, 1, 0), At(0, 23, 59, 0), At(0, 23, 59, 30), At(1, 0, 30, 0)}

\* "A1" alone and "A2" alone.
QueryRequests == {<<(<<"A", "1">>)>>, <<(<<"A", "2">>)>>}

\* The theater of the service and a name no theater has.
TheaterNames == {TheaterName, "Other"}

\* th.hasShowOnDay(movieName, day)
QueryHasShowOnDay(movieName, day) ==
    /\ last' = [op |-> "hasShowOnDay", movieName |-> movieName, day |-> day,
                ret |-> hasShowOnDay(vShowInfo, movieName, day)]
    /\ UNCHANGED <<maxSeats, vShowInfo, mtx, thread_vars, vTheater>>

\* th.availableSeatIds(moviename, start)
QueryAvailableSeatIds(moviename, start) ==
    /\ last' = [op |-> "availableSeatIds", moviename |-> moviename, start |-> start,
                ret |-> availableSeatIds(vShowInfo, moviename, start, maxSeats)]
    /\ UNCHANGED <<maxSeats, vShowInfo, mtx, thread_vars, vTheater>>

\* th.getMovieListOn(day)
QueryGetMovieListOn(day) ==
    /\ last' = [op |-> "getMovieListOn", day |-> day,
                ret |-> getMovieListOn(vShowInfo, day)]
    /\ UNCHANGED <<maxSeats, vShowInfo, mtx, thread_vars, vTheater>>

\* svc.seatsAvailable(theater, movie, day)
QuerySeatsAvailable(theater, movie, day) ==
    /\ \E r \in seatsAvailable(vShowInfo, maxSeats, theater, movie, day) :
           last' = [op |-> "seatsAvailable", theater |-> theater, movie |-> movie,
                    day |-> day, ret |-> r]
    /\ UNCHANGED <<maxSeats, vShowInfo, mtx, thread_vars, vTheater>>

NextQuery ==
    \/ \E name \in Titles, start_t \in QueryStarts, price \in Prices :
           SeqAddShowInfo(name, start_t, price)
    \/ \E moviename \in Titles, dt \in QueryStarts, seatIds \in QueryRequests,
          show_no \in ShowNos :
           SeqBookSeats(moviename, dt, seatIds, show_no)
    \/ \E movieName \in Titles, day \in QueryStarts : QueryHasShowOnDay(movieName, day)
    \/ \E moviename \in Titles, start \in QueryStarts :
           QueryAvailableSeatIds(moviename, start)
    \/ \E day \in QueryStarts : QueryGetMovieListOn(day)
    \/ \E theater \in TheaterNames, movie \in Titles, day \in QueryStarts :
           QuerySeatsAvailable(theater, movie, day)

SpecQuery == Init /\ [][NextQuery]_vars

---------------------------------------------------------------------------
(* SpecService: one caller of the service, which holds the theaters.       *)

\* The theater of that name holds as many shows as the model admits.
ServiceFull(theaters, theater) ==
    /\ FindTheater(theaters, theater) # 0
    /\ Len(theaters[FindTheater(theaters, theater)].vShowInfo) >= MaxShows

\* svc.addTheater(theater, capacity)
ServiceAddTheater(theater, capacity) ==
    /\ vTheater' = addTheater(vTheater, theater, capacity)
    /\ last' = [op |-> "addTheater", theater |-> theater, capacity |-> capacity]
    /\ UNCHANGED <<maxSeats, vShowInfo, mtx, thread_vars>>

\* svc.addShowInfo(theater, movie, start_t, price)
ServiceAddShowInfo(theater, movie, start_t, price) ==
    /\ ~ServiceFull(vTheater, theater)
    /\ vTheater' = serviceAddShowInfo(vTheater, theater, movie, start_t, price)
    /\ last' = [op |-> "addShowInfo", theater |-> theater]
    /\ UNCHANGED <<maxSeats, vShowInfo, mtx, thread_vars>>

\* svc.bookSeats(theater, moviename, dt, seatIds, show_no)
ServiceBookSeats(theater, moviename, dt, seatIds, show_no) ==
    /\ \E o \in serviceBookSeats(vTheater, theater, moviename, dt, seatIds, show_no) :
           /\ vTheater' = o.theaters
           /\ last' = [op |-> "bookSeats", theater |-> theater, ret |-> o.ret]
    /\ UNCHANGED <<maxSeats, vShowInfo, mtx, thread_vars>>

InitService == Init /\ maxSeats = 1

NextService ==
    \/ \E theater \in TheaterNames, capacity \in Capacities :
           ServiceAddTheater(theater, capacity)
    \/ \E theater \in TheaterNames, movie \in BookTitles, start_t \in ConcInstants,
          price \in Prices :
           ServiceAddShowInfo(theater, movie, start_t, price)
    \/ \E theater \in TheaterNames, moviename \in BookTitles, dt \in ConcInstants,
          seatIds \in QueryRequests, show_no \in ConcShowNos :
           ServiceBookSeats(theater, moviename, dt, seatIds, show_no)

SpecService == InitService /\ [][NextService]_vars

---------------------------------------------------------------------------
(* SpecFair: the callers of Spec under a fair scheduler.  A thread inside   *)
(* a locked section is not suspended for ever (weak fairness of its steps), *)
(* and a thread waiting in std::lock_guard's constructor gets the mutex if  *)
(* the mutex is free again and again (strong fairness of the acquisition).  *)
(* Nothing obliges a thread to start a call.  The venue has one seat and    *)
(* every show the same title and start, which leaves the locking as in     *)
(* Spec.                                                                   *)

Fairness ==
    \A t \in Threads :
        /\ WF_vars(AddEmplace(t))
        /\ WF_vars(AddAssign(t))
        /\ WF_vars(AddSetFree(t))
        /\ SF_vars(BookLock(t))
        /\ WF_vars(BookValidate(t))
        /\ WF_vars(BookFlip(t))
        /\ WF_vars(BookDecrement(t))

\* A venue of one seat.
InitFair == Init /\ maxSeats = 1

\* No seat, "A1" (free at first, then taken) and "A2" (out of range).
FairRequests == {<<>>, <<(<<"A", "1">>)>>, <<(<<"A", "2">>)>>}

NextFair ==
    \/ \E t \in Threads, name \in ConcTitles, start_t \in ConcInstants, price \in Prices :
           AddLock(t, name, start_t, price)
    \/ \E t \in Threads : AddEmplace(t)
    \/ \E t \in Threads : AddAssign(t)
    \/ \E t \in Threads : AddSetFree(t)
    \/ \E t \in Threads, moviename \in ConcTitles, dt \in ConcInstants,
          seatIds \in FairRequests, show_no \in ConcShowNos :
           BookResolve(t, moviename, dt, seatIds, show_no)
    \/ \E t \in Threads : BookLock(t)
    \/ \E t \in Threads : BookValidate(t)
    \/ \E t \in Threads : BookFlip(t)
    \/ \E t \in Threads : BookDecrement(t)

SpecFair == InitFair /\ [][NextFair]_vars /\ Fairness

---------------------------------------------------------------------------
(* SpecSnapshot: the callers of Spec and one reader that runs the queries  *)
(* getListOfShowsOn and getListofMovieShowsOn, which take no lock.  The    *)
(* reader walks the shows that vShowInfo held when the loop began; the     *)
(* copy of a show (copy_if's back_inserter, push_back(s)) copies the       *)
(* members of ShowInfo in the order of their declaration, movieName,       *)
(* start, price and freeTickets in one step and taken in the next, so      *)
(* that the callers' writes interleave with a copy.  The reader's query    *)
(* is kept in last: its parameters, the loop's end n and position i, the   *)
(* copies made so far (movieShows) and, for each copy, whether the venue   *)
(* was left unwritten while it was made (clean).                           *)

QueryOps == {"getListOfShowsOn", "getListofMovieShowsOn"}

\* The lambda of line 322 and the condition of line 342.
Selected(op, s, moviename, day) ==
    /\ op = "getListofMovieShowsOn" => s.movieName = moviename
    /\ toLocalMidnight(s.start) = toLocalMidnight(day)

\* Thread t has inserted a show (line 244) and not yet made its last
\* assignment to it (line 246).
AddWriting(t) == pc[t] \in {"assign", "setfree"}

\* Thread t has flipped a seat (line 414) and not yet subtracted from
\* freeTickets (line 415).
BookWriting(t) == pc[t] = "flip" /\ cursor[t] > 0

Writing == \E t \in Threads : AddWriting(t) \/ BookWriting(t)

QueryFree == IF last.op \in QueryOps THEN last.step = "returned" ELSE TRUE

\* Lines 317-321 and 337-341: the query is entered, and begin() and end()
\* of vShowInfo are taken.
QueryBegin(op, moviename, day) ==
    /\ QueryFree
    /\ last' = [op |-> op, moviename |-> moviename, day |-> day,
                n |-> Len(vShowInfo), i |-> 0, step |-> "test",
                seen |-> <<>>, quiet |-> TRUE,
                movieShows |-> <<>>, clean |-> <<>>]
    /\ UNCHANGED <<maxSeats, vShowInfo, mtx, thread_vars, vTheater>>

\* Lines 322 and 342: the test of show i and, when it passes, the copy of
\* its members up to freeTickets.  seen is the venue as it is now: the
\* copy's first members are those of seen[i + 1].
QueryTest ==
    /\ last.op \in QueryOps
    /\ last.step = "test"
    /\ last.i < last.n
    /\ last' = IF Selected(last.op, vShowInfo[last.i + 1], last.moviename, last.day)
               THEN [last EXCEPT !.step = "taken", !.seen = vShowInfo,
                                 !.quiet = ~Writing]
               ELSE [last EXCEPT !.i = last.i + 1]
    /\ UNCHANGED <<maxSeats, vShowInfo, mtx, thread_vars, vTheater>>

\* Lines 321 and 343: the copy of taken, which ends the copy of show i.
QueryCopyTaken ==
    /\ last.op \in QueryOps
    /\ last.step = "taken"
    /\ LET copy == [last.seen[last.i + 1] EXCEPT
                       !.taken = vShowInfo[last.i + 1].taken]
           unwritten == last.quiet /\ ~Writing /\ vShowInfo = last.seen
       IN  last' = [last EXCEPT !.movieShows = Append(@, copy),
                                !.clean = Append(@, unwritten),
                                !.i = last.i + 1,
                                !.step = "test",
                                !.seen = <<>>,
                                !.quiet = TRUE]
    /\ UNCHANGED <<maxSeats, vShowInfo, mtx, thread_vars, vTheater>>

\* Lines 324 and 345: return movieShows
QueryReturn ==
    /\ last.op \in QueryOps
    /\ last.step = "test"
    /\ last.i = last.n
    /\ last' = [last EXCEPT !.step = "returned"]
    /\ UNCHANGED <<maxSeats, vShowInfo, mtx, thread_vars, vTheater>>

\* The day of the shows and the day after.
QueryDays == {At(0, 12, 0, 0), At(1, 12, 0, 0)}

\* The seats of a venue of two seats, one or both, each named once.
SnapshotRequests ==
    {<<(<<"A", "1">>)>>, <<(<<"A", "2">>)>>, <<(<<"A", "1">>), (<<"A", "2">>)>>}

InitSnapshot == Init /\ maxSeats = 2

NextSnapshot ==
    \/ \E t \in Threads, name \in ConcTitles, start_t \in ConcInstants, price \in Prices :
           AddLock(t, name, start_t, price)
    \/ \E t \in Threads : AddEmplace(t)
    \/ \E t \in Threads : AddAssign(t)
    \/ \E t \in Threads : AddSetFree(t)
    \/ \E t \in Threads, moviename \in ConcTitles, dt \in ConcInstants,
          seatIds \in SnapshotRequests :
           BookResolve(t, moviename, dt, seatIds, 0)
    \/ \E t \in Threads : BookLock(t)
    \/ \E t \in Threads : BookValidate(t)
    \/ \E t \in Threads : BookFlip(t)
    \/ \E t \in Threads : BookDecrement(t)
    \/ \E moviename \in Titles, day \in QueryDays :
           \/ QueryBegin("getListOfShowsOn", "", day)
           \/ QueryBegin("getListofMovieShowsOn", moviename, day)
    \/ QueryTest
    \/ QueryCopyTaken
    \/ QueryReturn

SpecSnapshot == InitSnapshot /\ [][NextSnapshot]_vars

---------------------------------------------------------------------------
(* Claims about the concurrent callers (Spec) *)

IsBook(t) == args[t].op = "bookSeats"

\* Thread t has returned from a bookSeats call that resolved show c and
\* requested the single seat of index idx.
ReturnedSingle(t, c, idx) ==
    /\ pc[t] = "done"
    /\ IsBook(t)
    /\ chosenIdx[t] = c
    /\ Len(args[t].seatIds) = 1
    /\ seatIndexFromId(args[t].seatIds[1], maxSeats) = idx

\* C1: when two threads have both returned from bookSeats calls that
\* requested the same single seat of the same show, they did not both
\* return true, the seat is taken, and exactly one bookSeats call (of any
\* thread) has won that seat.
AtMostOneWinner ==
    \A t1, t2 \in Threads : \A c \in 0..(Len(vShowInfo) - 1) : \A idx \in 0..(maxSeats - 1) :
        (t1 # t2 /\ ReturnedSingle(t1, c, idx) /\ ReturnedSingle(t2, c, idx))
        => /\ ~(ret[t1] /\ ret[t2])
           /\ vShowInfo[c + 1].taken[idx + 1]
           /\ WinCount(c, idx) = 1

\* Two threads have returned from calls for seat A1 of show 0; one won.
AtMostOneWinnerWitness ==
    \E t1, t2 \in Threads :
        /\ t1 # t2
        /\ ReturnedSingle(t1, 0, 0) /\ ReturnedSingle(t2, 0, 0)
        /\ ret[t1] /\ ~ret[t2]
        /\ WinCount(0, 0) = 1

\* C7: a seat that is taken is taken in the next state, whatever step any
\* thread takes.
MonotonicReservation ==
    [][\A i \in 1..Len(vShowInfo) : \A k \in 1..Len(vShowInfo[i].taken) :
          vShowInfo[i].taken[k]
          => /\ i <= Len(vShowInfo')
             /\ k <= Len(vShowInfo'[i].taken)
             /\ vShowInfo'[i].taken[k]]_vars

\* A seat of the first show is taken while one thread is inside
\* addShowInfo, about to assign the new show's seat map, and another is
\* inside bookSeats.
MonotonicReservationWitness ==
    /\ Len(vShowInfo) = 2
    /\ \E k \in 1..Len(vShowInfo[1].taken) : vShowInfo[1].taken[k]
    /\ \E t, u \in Threads : pc[t] = "assign" /\ pc[u] = "lock"

\* The steps between taking the lock and releasing it.
InSection(t) == pc[t] \in {"critical", "flip", "emplace", "assign", "setfree"}

\* C10: at most one thread is inside the validation-and-flip section of
\* bookSeats or the insertion section of addShowInfo, and it holds the
\* mutex.
MutualExclusion ==
    \A t1, t2 \in Threads :
        (InSection(t1) /\ InSection(t2)) => (t1 = t2 /\ mtx = t1)

\* One thread is flipping seats while every other thread waits for the
\* lock.
MutualExclusionWitness ==
    \E t \in Threads :
        /\ pc[t] = "flip"
        /\ \A u \in Threads \ {t} : pc[u] = "lock"

---------------------------------------------------------------------------
(* Claims about the seats, one caller (SpecSeq) *)

\* Some identifier of the request names a seat that is taken in show.
NamesTakenSeat(show, seatIds, cap) ==
    \E k \in 1..Len(seatIds) :
        LET i == seatIndexFromId(seatIds[k], cap)
        IN  i >= 0 /\ i < Len(show.taken) /\ show.taken[i + 1]

\* C2: in every state reached by addShowInfo and bookSeats calls, a
\* bookSeats call whose request names a seat already taken in the show it
\* resolves returns false.
NoDoubleBooking ==
    \A moviename \in BookTitles, dt \in SeatStarts, seatIds \in Requests, show_no \in ShowNos :
        \A o \in bookSeats(vShowInfo, maxSeats, moviename, dt, seatIds, show_no) :
            (o.chosenIdx # NoIdx
             /\ NamesTakenSeat(vShowInfo[o.chosenIdx + 1], seatIds, maxSeats))
            => ~o.ret

\* The last call was a bookSeats that resolved a show, validated one seat
\* and returned false, and a request of two seats, the second taken in
\* that show, fails like that.
NoDoubleBookingWitness ==
    /\ last.op = "bookSeats" /\ ~last.ret /\ last.chosenIdx # NoIdx
    /\ Len(last.idxs) = 1
    /\ \E moviename \in BookTitles, dt \in SeatStarts, seatIds \in Requests :
           \E o \in bookSeats(vShowInfo, maxSeats, moviename, dt, seatIds, last.show_no) :
               /\ o.chosenIdx = last.chosenIdx /\ o.idxs = last.idxs /\ ~o.ret
               /\ Len(seatIds) = 2
               /\ NamesTakenSeat(vShowInfo[o.chosenIdx + 1], <<seatIds[2]>>, maxSeats)

\* C3: a bookSeats call that returns false leaves the seat map and
\* freeTickets of every show (the whole of vShowInfo) as they were.
AllOrNothing ==
    [][(last'.op = "bookSeats" /\ ~last'.ret) => vShowInfo' = vShowInfo]_vars

\* The last call returned false after validating a first seat (a mixed
\* request), and that seat is still free, the show's count still full.
AllOrNothingWitness ==
    /\ last.op = "bookSeats" /\ ~last.ret /\ last.chosenIdx # NoIdx
    /\ last.idxs # <<>>
    /\ \A k \in 1..Len(last.idxs) :
           ~vShowInfo[last.chosenIdx + 1].taken[last.idxs[k] + 1]
    /\ vShowInfo[last.chosenIdx + 1].freeTickets = maxSeats

\* C4: every show's freeTickets is the number of false entries of its seat
\* map.
FreeCountInvariant ==
    \A i \in 1..Len(vShowInfo) :
        vShowInfo[i].freeTickets = CountFree(vShowInfo[i].taken)

\* No show inserted before show c has c's title and start.
FirstOfKey(shows, c) ==
    \A j \in 0..(c - 1) :
        ~(shows[j + 1].movieName = shows[c + 1].movieName
          /\ shows[j + 1].start = shows[c + 1].start)

\* The request is not empty and names valid, pairwise different seats that
\* are all free in show.
DistinctValidFree(show, seatIds, cap) ==
    /\ seatIds # <<>>
    /\ \A k \in 1..Len(seatIds) :
           LET i == seatIndexFromId(seatIds[k], cap)
           IN  i >= 0 /\ i < Len(show.taken) /\ ~show.taken[i + 1]
    /\ \A k, l \in 1..Len(seatIds) :
           k # l => seatIndexFromId(seatIds[k], cap) # seatIndexFromId(seatIds[l], cap)

\* The identifiers of avail that name none of the seats of seatIds.
WithoutSeats(avail, seatIds, cap) ==
    LET Keep(id) == \A k \in 1..Len(seatIds) :
                        seatIndexFromId(id, cap) # seatIndexFromId(seatIds[k], cap)
    IN  SelectSeq(avail, Keep)

\* What the claim says of a call that resolved show c, given its outcome o.
ReducesAvailability(o, c, seatIds) ==
    LET show == vShowInfo[c + 1]
    IN  /\ o.ret
        /\ o.shows[c + 1].freeTickets = show.freeTickets - Len(seatIds)
        /\ CountFree(o.shows[c + 1].taken) = CountFree(show.taken) - Len(seatIds)
        /\ availableSeatIds(o.shows, show.movieName, show.start, maxSeats)
           = WithoutSeats(availableSeatIds(vShowInfo, show.movieName, show.start, maxSeats),
                          seatIds, maxSeats)

SeatIdsUpTo(c) == [k \in 1..c |-> <<"A", Digits[k + 1]>>]

NeverBooked(show) == \A k \in 1..Len(show.taken) : ~show.taken[k]

\* C6 as stated: availableSeatIds(title, start) of a show that was added and
\* never booked is A1 .. A<capacity>.
CapacityInvariantAnyShow ==
    \A i \in 1..Len(vShowInfo) :
        NeverBooked(vShowInfo[i])
        => availableSeatIds(vShowInfo, vShowInfo[i].movieName, vShowInfo[i].start, maxSeats)
           = SeatIdsUpTo(maxSeats)

\* C6 as amended: the same, for a show that is the first inserted with its
\* title and start.
CapacityInvariant ==
    \A i \in 1..Len(vShowInfo) :
        (NeverBooked(vShowInfo[i]) /\ FirstOfKey(vShowInfo, i - 1))
        => availableSeatIds(vShowInfo, vShowInfo[i].movieName, vShowInfo[i].start, maxSeats)
           = SeatIdsUpTo(maxSeats)

\* In a venue of more than one seat the last call added a show, the first
\* with its title and start, after a seat of an earlier show was booked.
CapacityInvariantWitness ==
    /\ last.op = "addShowInfo"
    /\ maxSeats > 1
    /\ Len(vShowInfo) > 1
    /\ FirstOfKey(vShowInfo, Len(vShowInfo) - 1)
    /\ NeverBooked(vShowInfo[Len(vShowInfo)])
    /\ ~NeverBooked(vShowInfo[1])

---------------------------------------------------------------------------
(* Claims about the resolution of the show, one caller (SpecResolve) *)

\* The local calendar day and the minute of the day of a time_t, computed
\* apart from the helpers of the model.
DayOf(t) == t \div (24 * 60 * 60)

MinuteOfDay(t) == (t \div 60) % (24 * 60)

\* The indices of the shows with the title on dt's day.
OnDay(shows, moviename, dt) ==
    {i \in 0..(Len(shows) - 1) :
        shows[i + 1].movieName = moviename /\ DayOf(shows[i + 1].start) = DayOf(dt)}

\* Outcome o of a request for seat A1 books exactly that seat of show c of
\* vShowInfo if it is free, and otherwise returns false.
BooksSeatOne(o, c) ==
    /\ o.chosenIdx = c
    /\ o.ret = ~vShowInfo[c + 1].taken[1]
    /\ o.ret => /\ o.shows[c + 1].taken[1]
                /\ \A j \in 1..Len(vShowInfo) : j # c + 1 => o.shows[j] = vShowInfo[j]

\* The ways of inserting the shows of vShowInfo in another order.
Reordered(shows) ==
    {[i \in 1..Len(shows) |-> shows[f[i]]] : f \in Permutations(1..Len(shows))}

\* The starts of the shows a call may resolve.
ChosenStarts(shows, moviename, dt, seatIds, show_no) ==
    {shows[c + 1].start : c \in Resolve(shows, moviename, dt, seatIds, show_no) \ {NoIdx}}

\* C8: with show_no = n > 0 bookSeats books the show whose start is the
\* n-th in ascending order among the shows of the title on the day (false
\* when there are fewer than n), and inserting the same shows in any other
\* order resolves a show with the same start.
OrdinalResolution ==
    \A moviename \in Titles, dt \in Starts, n \in 1..(MaxShows + 1) :
        LET seatIds == <<(<<"A", "1">>)>>
            C == OnDay(vShowInfo, moviename, dt)
        IN  /\ \A o \in bookSeats(vShowInfo, maxSeats, moviename, dt, seatIds, n) :
                   IF n > Cardinality(C)
                   THEN ~o.ret /\ o.shows = vShowInfo
                   ELSE /\ o.chosenIdx \in C
                        /\ LET st == vShowInfo[o.chosenIdx + 1].start
                           IN  /\ Cardinality({i \in C : vShowInfo[i + 1].start < st}) < n
                               /\ n <= Cardinality({i \in C : vShowInfo[i + 1].start <= st})
                        /\ BooksSeatOne(o, o.chosenIdx)
            /\ \A other \in Reordered(vShowInfo) :
                   ChosenStarts(other, moviename, dt, seatIds, n)
                   = ChosenStarts(vShowInfo, moviename, dt, seatIds, n)

\* The last call booked with show_no = 2 a show that was inserted before a
\* show of the same title and day with an earlier start.
OrdinalResolutionWitness ==
    /\ last.op = "bookSeats" /\ last.ret /\ last.show_no = 2
    /\ \E j \in 1..Len(vShowInfo) :
           LET c == vShowInfo[last.chosenIdx + 1]
           IN  /\ j > last.chosenIdx + 1
               /\ vShowInfo[j].movieName = c.movieName
               /\ DayOf(vShowInfo[j].start) = DayOf(c.start)
               /\ vShowInfo[j].start < c.start

\* C9: with show_no = 0 bookSeats books the first-inserted show of the
\* title on the day whose start has the hour and minute of dt, and returns
\* false, changing nothing, when there is none.
TimeMatchResolution ==
    \A moviename \in Titles, dt \in Starts :
        LET seatIds == <<(<<"A", "1">>)>>
            M == {i \in OnDay(vShowInfo, moviename, dt) :
                     MinuteOfDay(vShowInfo[i + 1].start) = MinuteOfDay(dt)}
        IN  \A o \in bookSeats(vShowInfo, maxSeats, moviename, dt, seatIds, 0) :
                IF M = {}
                THEN ~o.ret /\ o.shows = vShowInfo
                ELSE BooksSeatOne(o, CHOOSE i \in M : \A j \in M : i <= j)

\* The last call booked in time-match mode the first of two shows of one
\* title that start in the same minute, at different seconds.
TimeMatchResolutionWitness ==
    /\ last.op = "bookSeats" /\ last.ret /\ last.show_no = 0
    /\ \E j \in 1..Len(vShowInfo) :
           LET c == vShowInfo[last.chosenIdx + 1]
           IN  /\ j > last.chosenIdx + 1
               /\ vShowInfo[j].movieName = c.movieName
               /\ DayOf(vShowInfo[j].start) = DayOf(c.start)
               /\ MinuteOfDay(vShowInfo[j].start) = MinuteOfDay(c.start)
               /\ vShowInfo[j].start # c.start

---------------------------------------------------------------------------
(* Claims about the concurrent callers under fair scheduling (SpecFair) *)

\* Thread t is inside a call: past its entry and not yet returned.
InCall(t) == pc[t] \notin {"idle", "done"}

\* The mutex is held only by a thread between its acquisition and its
\* return: no thread has returned, or waits, with the mutex in its hands.
HeldOnlyInSection == \A t \in Threads : mtx = t => InSection(t)

---------------------------------------------------------------------------
(* Claims about the rejections, concurrent callers (Spec) *)

\* Every ordinal a caller may pass: negative, 0, and up to one more than
\* the shows a venue holds.
AnyShowNos == (0 - 1)..(MaxShows + 1)

\* The step is thread t entering (and leaving) a bookSeats call with an
\* empty seatIds.
EmptyCallStep(t) ==
    /\ Free(t)
    /\ <<pc[t], args[t], ret[t], chosenIdx[t]>>' # <<pc[t], args[t], ret[t], chosenIdx[t]>>
    /\ args'[t].op = "bookSeats"
    /\ args'[t].seatIds = <<>>

\* C12: bookSeats with an empty seatIds returns false and leaves vShowInfo
\* as it is, for every title, reference instant and ordinal and whatever
\* shows the venue holds; a thread that calls it so returns false at once,
\* without resolving a show, taking the mutex or changing vShowInfo.
EmptyRequestRejected ==
    /\ [](\A moviename \in Titles, dt \in Starts, show_no \in AnyShowNos :
             \A o \in bookSeats(vShowInfo, maxSeats, moviename, dt, <<>>, show_no) :
                 ~o.ret /\ o.shows = vShowInfo /\ o.chosenIdx = NoIdx)
    /\ [](\A t \in Threads :
             (pc[t] = "done" /\ IsBook(t) /\ args[t].seatIds = <<>>)
             => (~ret[t] /\ chosenIdx[t] = NoIdx))
    /\ [][\A t \in Threads :
             EmptyCallStep(t)
             => (vShowInfo' = vShowInfo /\ mtx' = mtx /\ pc'[t] = "done" /\ ~ret'[t])]_vars

\* A thread has returned false from a call with an empty seatIds in
\* time-match mode while the venue holds a show of the title that starts at
\* the reference instant and has every seat free.
EmptyRequestRejectedWitness ==
    \E t \in Threads :
        /\ pc[t] = "done" /\ IsBook(t) /\ args[t].seatIds = <<>> /\ ~ret[t]
        /\ args[t].show_no = 0
        /\ \E i \in 1..Len(vShowInfo) :
               /\ vShowInfo[i].movieName = args[t].moviename
               /\ vShowInfo[i].start = args[t].dt
               /\ Len(vShowInfo[i].taken) = maxSeats
               /\ NeverBooked(vShowInfo[i])

---------------------------------------------------------------------------
(* Claims about the rejections, one caller (SpecResolve) *)

\* C13: bookSeats returns false, changing nothing, whenever show_no is
\* negative or greater than the number of shows of the title on dt's day,
\* and, whatever show_no is, whenever no show has the title on that day.
OrdinalOutOfRange ==
    /\ [](\A moviename \in Titles, dt \in Starts, seatIds \in ResolveRequests,
             show_no \in AnyShowNos :
             LET C == OnDay(vShowInfo, moviename, dt)
             IN  (show_no < 0 \/ show_no > Cardinality(C) \/ C = {})
                 => \A o \in bookSeats(vShowInfo, maxSeats, moviename, dt, seatIds, show_no) :
                        ~o.ret /\ o.shows = vShowInfo)
    /\ [][(last'.op = "bookSeats"
           /\ (last'.show_no < 0 \/ last'.show_no > Len(vShowInfo)))
          => (~last'.ret /\ last'.chosenIdx = NoIdx /\ vShowInfo' = vShowInfo)]_vars

\* The last call passed an ordinal one above the number of shows of the
\* venue and returned false without resolving a show, while the venue
\* holds two shows of one title on one day with their seat free.
OrdinalOutOfRangeWitness ==
    /\ last.op = "bookSeats" /\ ~last.ret /\ last.chosenIdx = NoIdx
    /\ last.show_no = MaxShows + 1
    /\ Len(vShowInfo) = MaxShows
    /\ \A i \in 1..Len(vShowInfo) :
           /\ vShowInfo[i].movieName = vShowInfo[1].movieName
           /\ DayOf(vShowInfo[i].start) = DayOf(vShowInfo[1].start)
           /\ NeverBooked(vShowInfo[i])

---------------------------------------------------------------------------
(* Claims about the seat-id codec (SpecCodec) *)

DecimalDigits == {"0", "1", "2", "3", "4", "5", "6", "7", "8", "9"}

ValueOfDigit(c) ==
    CASE c = "0" -> 0 [] c = "1" -> 1 [] c = "2" -> 2 [] c = "3" -> 3 [] c = "4" -> 4
      [] c = "5" -> 5 [] c = "6" -> 6 [] c = "7" -> 7 [] c = "8" -> 8 [] c = "9" -> 9

\* The number a string of decimal digits writes.
RECURSIVE DecimalValue(_)
DecimalValue(s) ==
    IF s = <<>> THEN 0
    ELSE DecimalValue(SubSeq(s, 1, Len(s) - 1)) * 10 + ValueOfDigit(s[Len(s)])

\* The letter A in either case followed by nothing but decimal digits that
\* write a number from 1 to cap (leading zeros allowed).
WellFormedSeatId(id, cap) ==
    /\ Len(id) >= 2
    /\ id[1] \in {"A", "a"}
    /\ \A k \in 2..Len(id) : id[k] \in DecimalDigits
    /\ DecimalValue(Tail(id)) >= 1
    /\ DecimalValue(Tail(id)) <= cap

\* C14: seatIndexFromId accepts an identifier only if it is A or a followed
\* by a purely numeric decimal number from 1 to the capacity, and bookSeats
\* returns false when its request holds an identifier that is not.
SeatIdValidation ==
    /\ (last.op = "seatIndexFromId" /\ last.idx # 0 - 1)
       => WellFormedSeatId(last.id, maxSeats)
    /\ (last.op = "bookSeats"
        /\ \E k \in 1..Len(last.seatIds) : ~WellFormedSeatId(last.seatIds[k], maxSeats))
       => ~last.ret

\* The identifier with its letter in upper case.
UpperCased(id) == IF id # <<>> /\ id[1] = "a" THEN <<"A">> \o Tail(id) ELSE id

\* C15: decoding what makeSeatId gives for an index of the venue gives the
\* index back; encoding what seatIndexFromId gives for an accepted
\* identifier gives the identifier back (the case of its letter apart); and
\* two accepted identifiers that decode to the same index are the same
\* (the case of their letter apart).
SeatIdBijection ==
    /\ last.op = "makeSeatId" => seatIndexFromId(last.id, maxSeats) = last.idx
    /\ (last.op = "seatIndexFromId" /\ last.idx # 0 - 1)
       => /\ makeSeatId(last.idx) = UpperCased(last.id)
          /\ \A other \in CodecIds :
                 seatIndexFromId(other, maxSeats) = last.idx
                 => UpperCased(other) = UpperCased(last.id)

---------------------------------------------------------------------------
(* Claims about the shows of a venue, one caller (SpecSeq) *)

---------------------------------------------------------------------------
(* Claims about the queries, one caller (SpecQuery) *)

Ascending(S) ==
    CHOOSE f \in [1..Cardinality(S) -> S] :
        \A a, b \in 1..Cardinality(S) : a < b => f[a] < f[b]

\* C18: availableSeatIds(title, start) returns the identifiers of the seats
\* whose entry is false in the first-inserted show with exactly that title
\* and start, in ascending order of seat, and the empty sequence when no
\* show matches or that show has no free seat.
AvailableSeatIdsExact ==
    last.op = "availableSeatIds"
    => LET M == {i \in 1..Len(vShowInfo) :
                    /\ vShowInfo[i].movieName = last.moviename
                    /\ vShowInfo[i].start = last.start}
       IN  IF M = {} THEN last.ret = <<>>
           ELSE LET show == vShowInfo[CHOOSE i \in M : \A j \in M : i <= j]
                    free == {k \in 1..maxSeats : ~show.taken[k]}
                    asc  == Ascending(free)
                IN  last.ret = [k \in 1..Cardinality(free) |-> SeatIdsUpTo(maxSeats)[asc[k]]]

\* The venue holds two shows with the title and start of the last query;
\* the first has a seat taken and a seat free, the second every seat free,
\* and the query returned the one free identifier of the first.
AvailableSeatIdsExactWitness ==
    /\ last.op = "availableSeatIds"
    /\ Len(vShowInfo) = 2
    /\ \A i \in 1..2 : /\ vShowInfo[i].movieName = last.moviename
                        /\ vShowInfo[i].start = last.start
    /\ ~NeverBooked(vShowInfo[1]) /\ NeverBooked(vShowInfo[2])
    /\ Len(last.ret) = 1

\* C19: every entry seatsAvailable returns has a seats list that is not
\* empty.
SeatsAvailableNonEmpty ==
    last.op = "seatsAvailable"
    => \A k \in 1..Len(last.ret) : last.ret[k].seats # <<>>

\* The titles of the shows on the day of `day`.
TitlesOn(day) ==
    {vShowInfo[i].movieName : i \in {j \in 1..Len(vShowInfo) :
                                        DayOf(vShowInfo[j].start) = DayOf(day)}}

\* C20: getMovieListOn(day) returns the titles of the shows on the
\* calendar day of `day`, each once, in ascending order.
MovieListSortedUnique ==
    last.op = "getMovieListOn"
    => LET T == TitlesOn(last.day)
       IN  last.ret = (IF "X" \in T THEN <<"X">> ELSE <<>>)
                      \o (IF "Y" \in T THEN <<"Y">> ELSE <<>>)

\* The venue holds two shows of one title on the day of the last query,
\* which returned that title once.
MovieListSortedUniqueWitness ==
    /\ last.op = "getMovieListOn"
    /\ Len(vShowInfo) = 2
    /\ vShowInfo[1].movieName = vShowInfo[2].movieName
    /\ \A i \in 1..2 : DayOf(vShowInfo[i].start) = DayOf(last.day)
    /\ last.ret = <<vShowInfo[1].movieName>>

---------------------------------------------------------------------------
(* Claims about the service (SpecService) *)

\* C21: an addTheater call for a name that a theater already has leaves
\* the theaters as they are: their number, and the capacity, the shows and
\* the taken seats of each.
AddTheaterIdempotent ==
    [][(last'.op = "addTheater" /\ FindTheater(vTheater, last'.theater) # 0)
       => vTheater' = vTheater]_vars

\* The last call was addTheater for the name of a theater that has another
\* capacity than the one passed and holds a show with a taken seat.
AddTheaterIdempotentWitness ==
    /\ last.op = "addTheater"
    /\ FindTheater(vTheater, last.theater) # 0
    /\ LET th == vTheater[FindTheater(vTheater, last.theater)]
       IN  /\ th.maxSeats # last.capacity
           /\ \E i \in 1..Len(th.vShowInfo) : ~NeverBooked(th.vShowInfo[i])
    /\ \A i, j \in 1..Len(vTheater) :
           vTheater[i].theaterName = vTheater[j].theaterName => i = j

---------------------------------------------------------------------------
(* Claims about the frame of a booking, one caller (SpecSeq) *)

\* Seat k (from 1) of the resolved show is one the call validated.
Requested(k) == \E j \in 1..Len(last'.idxs) : last'.idxs[j] + 1 = k

\* C22: a bookSeats call that returns true leaves the number of shows and
\* every show other than the resolved one as they were; of the resolved
\* show it leaves the title, the start and the price, and every seat it did
\* not request, as they were, and the seats it requested are taken.
BookingFrame ==
    [][(last'.op = "bookSeats" /\ last'.ret)
       => /\ Len(vShowInfo') = Len(vShowInfo)
          /\ last'.chosenIdx \in 0..(Len(vShowInfo) - 1)
          /\ \A i \in 1..Len(vShowInfo) :
                 i # last'.chosenIdx + 1 => vShowInfo'[i] = vShowInfo[i]
          /\ LET old == vShowInfo[last'.chosenIdx + 1]
                 new == vShowInfo'[last'.chosenIdx + 1]
             IN  /\ new.movieName = old.movieName
                 /\ new.start = old.start
                 /\ new.price = old.price
                 /\ Len(new.taken) = Len(old.taken)
                 /\ \A k \in 1..Len(old.taken) :
                        IF Requested(k) THEN new.taken[k] ELSE new.taken[k] = old.taken[k]]_vars

\* The last call booked one seat of a show of a venue of two seats that
\* holds two shows; the other seat of that show is free, and the other
\* show has another seat map.
BookingFrameWitness ==
    /\ last.op = "bookSeats" /\ last.ret
    /\ Len(last.idxs) = 1
    /\ maxSeats = 2 /\ Len(vShowInfo) = 2
    /\ CountFree(vShowInfo[last.chosenIdx + 1].taken) = 1
    /\ \E i \in 1..2 :
           /\ i # last.chosenIdx + 1
           /\ vShowInfo[i].taken # vShowInfo[last.chosenIdx + 1].taken

---------------------------------------------------------------------------
(* Claims about calls that overlap in time (Spec), continued *)

\* Thread t is in a bookSeats call with show_no > 0 that has passed the
\* re-validation and the validation loop and holds the lock: its seats are
\* being flipped and it returns true.
FlippingOrdinal(t) ==
    /\ pc[t] = "flip"
    /\ args[t].op = "bookSeats"
    /\ args[t].show_no > 0

\* C23: while a bookSeats call with show_no = n > 0 flips its seats, the
\* show it flips is the n-th, in ascending order of start, among the shows
\* of the title and day that the venue holds at that moment, whatever
\* addShowInfo calls ran since the call resolved its show.
ResolutionStaysValid ==
    \A t \in Threads :
        FlippingOrdinal(t)
        => LET C  == OnDay(vShowInfo, args[t].moviename, args[t].dt)
               n  == args[t].show_no
               st == vShowInfo[chosenIdx[t] + 1].start
           IN  /\ chosenIdx[t] \in C
               /\ Cardinality({i \in C : vShowInfo[i + 1].start < st}) < n
               /\ n <= Cardinality({i \in C : vShowInfo[i + 1].start <= st})

---------------------------------------------------------------------------
(* Claims about the lock-free queries run beside the callers (SpecSnapshot) *)

\* Copy k of the reader's query has freeTickets equal to the number of
\* false entries of its taken.
CopyConsistent(k) ==
    last.movieShows[k].freeTickets = CountFree(last.movieShows[k].taken)

\* C24 as stated, for the shows whose seat map has been assigned: every
\* copy made by getListOfShowsOn or getListofMovieShowsOn has freeTickets
\* equal to the number of false entries of its own taken, also when the
\* query runs beside bookSeats calls on the show that request distinct
\* valid free seats.
SnapshotConsistent ==
    last.op \in QueryOps
    => \A k \in 1..Len(last.movieShows) :
           Len(last.movieShows[k].taken) = maxSeats => CopyConsistent(k)

\* C24, amended: a copy made by getListOfShowsOn or getListofMovieShowsOn
\* while no call wrote the venue (no addShowInfo call between its insertion
\* and its last assignment, no bookSeats call between its first flip and
\* its decrement) has freeTickets equal to the number of false entries of
\* its own taken, the bookSeats calls requesting distinct valid free seats.
SnapshotConsistentWhenUnwritten ==
    last.op \in QueryOps
    => \A k \in 1..Len(last.movieShows) : last.clean[k] => CopyConsistent(k)

\* The reader's query has returned two copies: one of a show with a booked
\* seat, made while nothing wrote the venue, and one of a show with its
\* seat map, made while a call wrote the venue.
SnapshotConsistentWitness ==
    /\ last.op \in QueryOps
    /\ last.step = "returned"
    /\ \E k \in 1..Len(last.movieShows) :
           /\ last.clean[k]
           /\ CountFree(last.movieShows[k].taken) < maxSeats
    /\ \E k \in 1..Len(last.movieShows) :
           /\ ~last.clean[k]
           /\ Len(last.movieShows[k].taken) = maxSeats
           /\ \A j \in 1..Len(vShowInfo) : Len(vShowInfo[j].taken) = maxSeats

=============================================================================
